---- MODULE Spec2Model ----
(***************************************************************************)
(* A model of downstream/asr/expert.py: the CTC ASR DownstreamExpert.      *)
(*                                                                         *)
(* Text is modelled by TLA+ strings, token ids by integers, lists and      *)
(* tensors rows by sequences, and floating point scores by exact           *)
(* rationals <<numerator, denominator>> in lowest terms.                   *)
(***************************************************************************)
EXTENDS Integers, Sequences, FiniteSets, TLC

-----------------------------------------------------------------------------
(* Bounds of the model.                                                    *)

\* utterances in one batch
MaxBatch == 2
\* frames of one emission matrix
MaxFrames == 3
\* entries of one (unpadded) label
MaxLabelLen == 3
\* greedy units of one prediction handed to _compute_metrics
MaxPredLen == 2
\* forward calls collected in one records dict
MaxVals == 2

-----------------------------------------------------------------------------
(* Generic helpers.                                                        *)

Min2(a, b) == IF a < b THEN a ELSE b

Range(s) == {s[i] : i \in 1..Len(s)}

\* all sequences over S of length at most n
SeqsUpTo(S, n) == UNION {[1..k -> S] : k \in 0..n}

RECURSIVE Gcd(_, _)
Gcd(a, b) == IF b = 0 THEN a ELSE Gcd(b, a % b)

\* the rational n/d (d > 0, n >= 0) in lowest terms
Rat(n, d) == LET g == Gcd(n, d) IN <<n \div g, d \div g>>

RLess(p, q) == p[1] * q[2] < q[1] * p[2]

RMin(p, q) == IF RLess(q, p) THEN q ELSE p

RECURSIVE SumNum(_, _)
\* numerator of the sum of the rationals vs over the common denominator den
SumNum(vs, den) ==
    IF Len(vs) = 0 THEN 0
    ELSE Head(vs)[1] * (den \div Head(vs)[2]) + SumNum(Tail(vs), den)

RECURSIVE ProdDen(_)
ProdDen(vs) == IF Len(vs) = 0 THEN 1 ELSE Head(vs)[2] * ProdDen(Tail(vs))

\* torch.FloatTensor(values).mean().item(), for a non-empty list of values
Mean(vs) == LET den == ProdDen(vs) IN Rat(SumNum(vs, den), den * Len(vs))

-----------------------------------------------------------------------------
(* Strings.                                                                *)

\* str.replace(c, r) for a one-character c
RECURSIVE Replace(_, _, _)
Replace(s, c, r) ==
    IF Len(s) = 0 THEN ""
    ELSE (IF SubSeq(s, 1, 1) = c THEN r ELSE SubSeq(s, 1, 1))
            \o Replace(SubSeq(s, 2, Len(s)), c, r)

RECURSIVE LStrip(_)
LStrip(s) ==
    IF Len(s) > 0 /\ SubSeq(s, 1, 1) = " " THEN LStrip(SubSeq(s, 2, Len(s))) ELSE s

RECURSIVE RStrip(_)
RStrip(s) ==
    IF Len(s) > 0 /\ SubSeq(s, Len(s), Len(s)) = " "
    THEN RStrip(SubSeq(s, 1, Len(s) - 1)) ELSE s

\* str.strip()
Strip(s) == RStrip(LStrip(s))

RECURSIVE SplitFrom(_, _, _)
\* str.split(): cur is the word being read, out the words read so far
SplitFrom(s, cur, out) ==
    IF Len(s) = 0 THEN (IF cur = "" THEN out ELSE Append(out, cur))
    ELSE IF SubSeq(s, 1, 1) = " "
         THEN SplitFrom(SubSeq(s, 2, Len(s)), "",
                        IF cur = "" THEN out ELSE Append(out, cur))
         ELSE SplitFrom(SubSeq(s, 2, Len(s)), cur \o SubSeq(s, 1, 1), out)

Split(s) == SplitFrom(s, "", <<>>)

RECURSIVE Join(_)
\* " ".join(words)
Join(ws) ==
    IF Len(ws) = 0 THEN ""
    ELSE IF Len(ws) = 1 THEN ws[1]
    ELSE ws[1] \o " " \o Join(Tail(ws))

\* a token_to_word that leaves the word boundaries in place
token_to_word_keeps_bar(text) == Strip(Replace(text, " ", ""))

\* token_to_word(text)
token_to_word(text) == Strip(Replace(Replace(text, " ", ""), "|", " "))

-----------------------------------------------------------------------------
(* editdistance.eval: the Levenshtein distance of two sequences (the       *)
(* characters of two strings, or the elements of two lists).               *)

RECURSIVE EdRow(_, _, _, _)
\* one row of the dynamic programme: prev is the row of the prefix before c
EdRow(prev, c, t, row) ==
    IF Len(row) = Len(t) + 1 THEN row
    ELSE LET j == Len(row)
             sub == prev[j] + (IF SubSeq(t, j, j) = c THEN 0 ELSE 1)
             del == prev[j + 1] + 1
             ins == row[j] + 1
         IN EdRow(prev, c, t, Append(row, Min2(sub, Min2(del, ins))))

RECURSIVE EdRows(_, _, _, _)
EdRows(s, t, i, prev) ==
    IF i > Len(s) THEN prev[Len(t) + 1]
    ELSE EdRows(s, t, i + 1, EdRow(prev, SubSeq(s, i, i), t, <<i>>))

EditDistance(s, t) == EdRows(s, t, 1, [j \in 1..(Len(t) + 1) |-> j - 1])

-----------------------------------------------------------------------------
(* The dictionary of the training set (self.train_dataset.dictionary): the *)
(* four special symbols, then the units. Units are characters, "|" is the  *)
(* word boundary.                                                          *)

Symbols == <<"<s>", "<pad>", "</s>", "<unk>", "|", "a">>

\* dictionary.index(sym): ids count from 0
Index(sym) == CHOOSE i \in 0..(Len(Symbols) - 1) : Symbols[i + 1] = sym

Bos == Index("<s>")
Pad == Index("<pad>")
Eos == Index("</s>")
Bar == Index("|")
UnitA == Index("a")
Unk == Index("<unk>")

\* the output classes of the model: len(self.train_dataset.symbols)
Classes == 0..(Len(Symbols) - 1)

\* self.blank
blank == Bos

\* dictionary.string(ids): the symbols joined by " ", end and begin of
\* sentence left out
String(ids) ==
    LET kept == SelectSeq(ids, LAMBDA i : i # Eos /\ i # Bos)
    IN Join([k \in 1..Len(kept) |-> Symbols[kept[k] + 1]])

-----------------------------------------------------------------------------
(* _decode, one utterance.                                                 *)

\* log_prob[:in_len]
Slice(log_prob, in_len) == SubSeq(log_prob, 1, Min2(in_len, Len(log_prob)))

\* argmax over the classes of one frame (the first maximal class)
Argmax(frame) ==
    CHOOSE c \in Classes :
        /\ \A d \in Classes : frame[d] <= frame[c]
        /\ \A d \in Classes : d < c => frame[d] < frame[c]

RECURSIVE UniqueConsecutive(_)
\* tensor.unique_consecutive(): every run of equal elements becomes one
UniqueConsecutive(s) ==
    IF Len(s) <= 1 THEN s
    ELSE IF s[1] = s[2] THEN UniqueConsecutive(Tail(s))
    ELSE <<s[1]>> \o UniqueConsecutive(Tail(s))

NotBlank(i) == i # blank

\* a greedy decoding that deletes the blanks before it merges the runs
GreedyIdsBlankFirst(log_prob, in_len) ==
    LET emissions == SubSeq(log_prob, 1, Min2(in_len, Len(log_prob)))
        path == [t \in 1..Len(emissions) |-> Argmax(emissions[t])]
    IN UniqueConsecutive(SelectSeq(path, NotBlank))

\* pred_token_ids
GreedyIds(log_prob, in_len) ==
    LET emissions == Slice(log_prob, in_len)
        path == [t \in 1..Len(emissions) |-> Argmax(emissions[t])]
    IN SelectSeq(UniqueConsecutive(path), NotBlank)

NoneValue == [type |-> "NoneType"]

\* a decoder that is called in training mode too
DecoderInvokedInTraining(dec, train) == dec # "None"

\* whether self.decoder.decode is called
DecoderInvoked(dec, train) == dec # "None" /\ ~train

\* `decoded` after the decoder call: result is what self.decoder.decode
\* returned, a list (one entry per emission matrix) of lists of hypotheses
FirstHypothesis(result) ==
    IF Len(result) >= 1
    THEN IF Len(result[1]) < 1 THEN NoneValue
         ELSE [type |-> "dict", val |-> result[1][1]]
    ELSE [type |-> "list", val |-> result]

\* decoded is not None and "words" in decoded
HasWords(decoded) ==
    /\ decoded.type # "NoneType"
    /\ IF decoded.type = "dict" THEN "words" \in DOMAIN decoded.val
       ELSE "words" \in Range(decoded.val)

\* pred_words for one utterance
PredWords(decoded, pred_tokens) ==
    IF HasWords(decoded) THEN decoded.val.words
    ELSE Split(token_to_word(pred_tokens))

\* one iteration of the loop of _decode; result is the decoder's answer
\* for this utterance's emissions
DecodeOne(dec, train, log_prob, in_len, result) ==
    LET decoded == IF DecoderInvoked(dec, train) THEN FirstHypothesis(result)
                   ELSE NoneValue
        pred_token_ids == GreedyIds(log_prob, in_len)
        pred_tokens == String(pred_token_ids)
    IN [ids |-> pred_token_ids,
        tokens |-> pred_tokens,
        words |-> PredWords(decoded, pred_tokens)]

-----------------------------------------------------------------------------
(* _compute_metrics.                                                       *)

IsTarget(id) == id # Pad /\ id # Eos

\* label[label_idx].tolist()
TargetIds(label) == SelectSeq(label, IsTarget)

RECURSIVE UnitErrorSum(_, _)
UnitErrorSum(pred_tokens_b, labels_b) ==
    IF Len(pred_tokens_b) = 0 \/ Len(labels_b) = 0 THEN 0
    ELSE EditDistance(Head(pred_tokens_b), String(TargetIds(Head(labels_b))))
            + UnitErrorSum(Tail(pred_tokens_b), Tail(labels_b))

RECURSIVE WordErrorSum(_, _)
WordErrorSum(pred_words_b, labels_b) ==
    IF Len(pred_words_b) = 0 \/ Len(labels_b) = 0 THEN 0
    ELSE EditDistance(Head(pred_words_b),
                      Split(token_to_word(String(TargetIds(Head(labels_b))))))
            + WordErrorSum(Tail(pred_words_b), Tail(labels_b))

RECURSIVE UnitLengthSum(_)
UnitLengthSum(labels_b) ==
    IF Len(labels_b) = 0 THEN 0
    ELSE Len(TargetIds(Head(labels_b))) + UnitLengthSum(Tail(labels_b))

RECURSIVE WordLengthSum(_)
WordLengthSum(labels_b) ==
    IF Len(labels_b) = 0 THEN 0
    ELSE Len(Split(token_to_word(String(TargetIds(Head(labels_b))))))
            + WordLengthSum(Tail(labels_b))

\* the rate 100.0 * error_sum / length_sum, 100.0 when nothing was counted
ErrorRate(error_sum, length_sum) ==
    IF length_sum > 0 THEN Rat(100 * error_sum, length_sum) ELSE Rat(100, 1)

\* zip(pred_tokens_batch, pred_words_batch, labels) stops at the shortest
Zipped(s, n) == SubSeq(s, 1, n)

\* _compute_metrics(pred_tokens_batch, pred_words_batch, labels)
ComputeMetrics(pred_tokens_b, pred_words_b, labels_b) ==
    LET n == Min2(Len(pred_tokens_b), Min2(Len(pred_words_b), Len(labels_b)))
        ls == Zipped(labels_b, n)
    IN [uer |-> ErrorRate(UnitErrorSum(Zipped(pred_tokens_b, n), ls),
                          UnitLengthSum(ls)),
        wer |-> ErrorRate(WordErrorSum(Zipped(pred_words_b, n), ls),
                          WordLengthSum(ls))]

\* pad_sequence(labels, batch_first=True, padding_value=pad)
PadSequence(raw) ==
    LET width == IF Len(raw) = 0 THEN 0
                 ELSE CHOOSE w \in {Len(raw[i]) : i \in 1..Len(raw)} :
                        \A i \in 1..Len(raw) : Len(raw[i]) <= w
    IN [i \in 1..Len(raw) |->
          [j \in 1..width |-> IF j <= Len(raw[i]) THEN raw[i][j] ELSE Pad]]

-----------------------------------------------------------------------------
(* log_records.                                                            *)

\* sub in s
Contains(sub, s) ==
    \E i \in 1..(Len(s) - Len(sub) + 1) : SubSeq(s, i, i + Len(sub) - 1) = sub

\* a comparison that takes an equal average for a better one
IsBestOrEqual(sp, key, average, best) ==
    Contains("dev-clean", sp) /\ key = "wer" /\ ~RLess(best, average)

\* a test that takes every dev-clean wer average for the best
IsBestUncompared(sp, key, average, best) ==
    Contains("dev-clean", sp) /\ key = "wer"

\* 'dev-clean' in split and key == 'wer' and average < self.best_score
IsBest(sp, key, average, best) ==
    Contains("dev-clean", sp) /\ key = "wer" /\ RLess(average, best)

\* f'{split}-best.ckpt'
SaveName(sp) == sp \o "-best.ckpt"

\* f'asr/{split}-{key}'
Tag(sp, key) == "asr/" \o sp \o "-" \o key

\* the keys of records in the order forward inserts them
KeyOrder == <<"loss", "uer", "wer">>

Keys(recs) == SelectSeq(KeyOrder, LAMBDA k : k \in DOMAIN recs)

RECURSIVE LogLoop(_, _, _, _)
\* the loop of log_records over the keys still to visit; st holds best_score,
\* save_names and what the logger was given so far
LogLoop(sp, recs, keys, st) ==
    IF Len(keys) = 0 THEN st
    ELSE LET key == Head(keys)
             average == Mean(recs[key])
             hit == IsBest(sp, key, average, st.best_score)
         IN LogLoop(sp, recs, Tail(keys),
                [best_score |-> IF hit THEN average ELSE st.best_score,
                 save_names |-> IF hit THEN Append(st.save_names, SaveName(sp))
                                ELSE st.save_names,
                 logged |-> Append(st.logged, <<Tag(sp, key), average>>)])

-----------------------------------------------------------------------------
(* Inputs.                                                                 *)

\* one frame of log probabilities whose largest entry is class c
Peak(c) == [k \in Classes |-> IF k = c THEN 2 ELSE IF k = blank THEN 1 ELSE 0]

FrameSet == {Peak(c) : c \in {blank, Eos, Bar, UnitA}}

\* what an external decoder may answer for one emission matrix: nothing, an
\* entry without hypotheses, hypotheses with or without a 'words' entry
Hypotheses ==
    {[score |-> 0]} \cup {[score |-> 0, words |-> w] : w \in {<<>>, <<"aa">>}}

DecoderResults ==
    {<<>>, << <<>> >>} \cup {<< <<h>> >> : h \in Hypotheses}
        \cup {<< <<[score |-> 0, words |-> <<"a">>], [score |-> 0]>> >>}

DecoderConfigs == {"None", "W2lDecoder"}

\* a batch of _decode is one utterance ranging over every bounded input,
\* followed by up to MaxBatch - 1 utterances of this short list
DecodeFillers(T) ==
    {[log_prob |-> [t \in 1..T |-> Peak(UnitA)], in_len |-> T,
      result |-> << <<[score |-> 0, words |-> <<"a">>]>> >>],
     [log_prob |-> [t \in 1..T |-> Peak(blank)], in_len |-> 0,
      result |-> <<>>]}

LabelUnits == {Eos, Unk, Bar, UnitA}

PredUnits == {Bar, UnitA}

\* the words a decoder hypothesis may carry
DecoderWords == {<<"a">>, <<"a", "aa">>}

\* a batch of _compute_metrics is one utterance ranging over every bounded
\* input, followed by up to MaxBatch - 1 utterances of this short list
MetricsFillers ==
    {[pred_tokens |-> "a", pred_words |-> <<"a">>, label |-> <<UnitA>>],
     [pred_tokens |-> "", pred_words |-> <<>>, label |-> <<UnitA, Bar, UnitA>>]}

\* the splits the interface documents, the one log_records looks for, and a
\* name that holds it
Splits ==
    {"train", "dev", "dev-clean", "test-clean", "test-other", "my-dev-clean-2"}

\* the CTC loss of one batch
LossVals == {Rat(1, 2), Rat(3, 1)}

\* the batches forward is given: an utterance that is recognised, one that
\* is missed, and both
Recognised == [log_prob |-> <<Peak(UnitA)>>, in_len |-> 1, label |-> <<UnitA>>]

Missed ==
    [log_prob |-> <<Peak(blank)>>, in_len |-> 1, label |-> <<UnitA, Bar, UnitA>>]

ForwardBatches == {<<Recognised>>, <<Missed>>, <<Recognised, Missed>>}

ForwardResults == {<< <<[score |-> 0, words |-> <<"a">>]>> >>}

-----------------------------------------------------------------------------
VARIABLES
    best_score,             \* self.best_score
    training,               \* self.training
    decoder,                \* self.decoder
    records,                \* the records dict the caller passes in
    pc,                     \* the last operation, or "call" before a pure call
    log_probs,              \* _decode: argument
    input_lens,             \* _decode: argument
    decoder_results,        \* _decode: what self.decoder.decode answers per utterance
    decoder_inputs,         \* _decode: the emissions handed to self.decoder.decode
    pred_token_ids_batch,   \* _decode: pred_token_ids of every utterance
    pred_tokens_batch,      \* _decode: result; _compute_metrics: argument
    pred_words_batch,       \* _decode: result; _compute_metrics: argument
    labels,                 \* _compute_metrics: argument
    uer,                    \* _compute_metrics: result
    wer,                    \* _compute_metrics: result
    split,                  \* log_records: argument
    save_names,             \* log_records: result
    logged,                 \* log_records: what logger.add_scalar was given
    best_before,            \* best_score before the last operation
    min_seen,               \* least of 100 and the dev-clean wer averages so far
    min_before              \* min_seen before the last operation

objectVars == <<best_score, training, decoder, records>>
decodeVars == <<log_probs, input_lens, decoder_results, decoder_inputs,
                pred_token_ids_batch>>
predVars == <<pred_tokens_batch, pred_words_batch>>
metricsVars == <<labels, uer, wer>>
logVars == <<split, save_names, logged, best_before, min_seen, min_before>>
vars == <<objectVars, pc, decodeVars, predVars, metricsVars, logVars>>

\* self.register_buffer('best_score', torch.ones(1) * 100)
InitialBest == Rat(100, 1)

NoDecodeCall ==
    /\ log_probs = <<>> /\ input_lens = <<>> /\ decoder_results = <<>>
    /\ decoder_inputs = <<>> /\ pred_token_ids_batch = <<>>

NoMetricsCall == labels = <<>> /\ uer = <<>> /\ wer = <<>>

NoLogCall ==
    /\ split = "" /\ save_names = <<>> /\ logged = <<>>
    /\ best_before = InitialBest /\ min_seen = InitialBest
    /\ min_before = InitialBest

-----------------------------------------------------------------------------
(* _decode as a pure function: the initial states draw the module's mode,  *)
(* its decoder and the arguments; the one action applies it.               *)

InitDecode ==
    /\ best_score = InitialBest /\ records = <<>>
    /\ training \in BOOLEAN
    /\ decoder \in DecoderConfigs
    /\ \E T \in 0..MaxFrames :
         \E lp \in [1..T -> FrameSet], n \in 0..T, r \in DecoderResults,
            rest \in SeqsUpTo(DecodeFillers(T), MaxBatch - 1) :
            LET b == <<[log_prob |-> lp, in_len |-> n, result |-> r]>> \o rest
            IN /\ log_probs = [i \in 1..Len(b) |-> b[i].log_prob]
               /\ input_lens = [i \in 1..Len(b) |-> b[i].in_len]
               /\ decoder_results =
                    [i \in 1..Len(b) |->
                       IF DecoderInvoked(decoder, training) THEN b[i].result
                       ELSE <<>>]
    /\ pc = "call"
    /\ decoder_inputs = <<>> /\ pred_token_ids_batch = <<>>
    /\ pred_tokens_batch = <<>> /\ pred_words_batch = <<>>
    /\ NoMetricsCall /\ NoLogCall

\* _decode(log_probs, input_lens)
Decode ==
    /\ pc = "call"
    /\ LET n == Min2(Len(log_probs), Len(input_lens))
           out == [i \in 1..n |->
                     DecodeOne(decoder, training, log_probs[i], input_lens[i],
                               decoder_results[i])]
       IN /\ pred_token_ids_batch' = [i \in 1..n |-> out[i].ids]
          /\ pred_tokens_batch' = [i \in 1..n |-> out[i].tokens]
          /\ pred_words_batch' = [i \in 1..n |-> out[i].words]
          /\ decoder_inputs' =
               IF DecoderInvoked(decoder, training)
               THEN [i \in 1..n |-> Slice(log_probs[i], input_lens[i])]
               ELSE <<>>
    /\ pc' = "_decode"
    /\ UNCHANGED <<objectVars, log_probs, input_lens, decoder_results,
                   metricsVars, logVars>>

NextDecode == Decode

SpecDecode == InitDecode /\ [][NextDecode]_vars

-----------------------------------------------------------------------------
(* _compute_metrics as a pure function, on the padded labels forward       *)
(* hands it.                                                               *)

InitMetrics ==
    /\ best_score = InitialBest /\ records = <<>>
    /\ training = TRUE /\ decoder = "None"
    /\ \E ids \in SeqsUpTo(PredUnits, MaxPredLen),
          l \in SeqsUpTo(LabelUnits, MaxLabelLen),
          rest \in SeqsUpTo(MetricsFillers, MaxBatch - 1) :
        \E ws \in {Split(token_to_word(String(ids)))} \cup DecoderWords :
          LET b == <<[pred_tokens |-> String(ids), pred_words |-> ws,
                      label |-> l]>> \o rest
          IN /\ pred_tokens_batch = [i \in 1..Len(b) |-> b[i].pred_tokens]
             /\ pred_words_batch = [i \in 1..Len(b) |-> b[i].pred_words]
             /\ labels = PadSequence([i \in 1..Len(b) |-> b[i].label])
    /\ pc = "call"
    /\ uer = <<>> /\ wer = <<>>
    /\ NoDecodeCall /\ NoLogCall

\* uer, wer = self._compute_metrics(pred_tokens_batch, pred_words_batch, labels)
Metrics ==
    /\ pc = "call"
    /\ LET m == ComputeMetrics(pred_tokens_batch, pred_words_batch, labels)
       IN uer' = m.uer /\ wer' = m.wer
    /\ pc' = "_compute_metrics"
    /\ UNCHANGED <<objectVars, decodeVars, predVars, labels, logVars>>

NextMetrics == Metrics

SpecMetrics == InitMetrics /\ [][NextMetrics]_vars

-----------------------------------------------------------------------------
(* The expert over its life: forward fills the records of the caller,      *)
(* log_records averages them and keeps the best score.                     *)

EmptyRecords == [k \in {} |-> <<>>]

\* records[key].append(value) on a defaultdict(list)
AppendRecord(recs, key, value) ==
    [k \in DOMAIN recs \cup {key} |->
        IF k = key
        THEN Append(IF k \in DOMAIN recs THEN recs[k] ELSE <<>>, value)
        ELSE recs[k]]

Init ==
    /\ best_score = InitialBest
    /\ training = TRUE
    /\ decoder \in DecoderConfigs
    /\ records = EmptyRecords
    /\ pc = "__init__"
    /\ pred_tokens_batch = <<>> /\ pred_words_batch = <<>>
    /\ NoDecodeCall /\ NoMetricsCall /\ NoLogCall

\* forward(split, features, labels, records): the model's log_probs of the
\* batch b, their lengths, the loss and the decoder's answers are inputs
Forward(b, loss, results) ==
    /\ \A k \in DOMAIN records : Len(records[k]) < MaxVals
    /\ LET n == Len(b)
           out == [i \in 1..n |->
                     DecodeOne(decoder, training, b[i].log_prob, b[i].in_len,
                               results[i])]
           padded == PadSequence([i \in 1..n |-> b[i].label])
           m == ComputeMetrics([i \in 1..n |-> out[i].tokens],
                               [i \in 1..n |-> out[i].words], padded)
       IN records' = AppendRecord(AppendRecord(AppendRecord(records,
                        "loss", loss), "uer", m.uer), "wer", m.wer)
    /\ pc' = "forward"
    /\ split' = "" /\ save_names' = <<>> /\ logged' = <<>>
    /\ best_before' = best_score
    /\ UNCHANGED <<best_score, training, decoder, decodeVars, predVars,
                   metricsVars>>

\* log_records(split, records, logger, ...)
LogRecords(sp) ==
    /\ LET st == LogLoop(sp, records, Keys(records),
                         [best_score |-> best_score, save_names |-> <<>>,
                          logged |-> <<>>])
       IN /\ best_score' = st.best_score
          /\ save_names' = st.save_names
          /\ logged' = st.logged
    /\ split' = sp
    /\ best_before' = best_score
    /\ pc' = "log_records"
    /\ UNCHANGED <<training, decoder, records, decodeVars, predVars,
                   metricsVars>>

\* the caller starts a pass over a split: it puts the module in training or
\* evaluation mode and starts a new records dict, defaultdict(list)
NewRecords(mode) ==
    /\ records # EmptyRecords \/ training # mode
    /\ records' = EmptyRecords
    /\ training' = mode
    /\ pc' = "records"
    /\ split' = "" /\ save_names' = <<>> /\ logged' = <<>>
    /\ best_before' = best_score
    /\ UNCHANGED <<best_score, decoder, decodeVars, predVars, metricsVars>>

\* the least of 100 and every dev-clean wer average handed to log_records
Observed(sp) ==
    IF Contains("dev-clean", sp) /\ "wer" \in DOMAIN records
    THEN RMin(min_seen, Mean(records["wer"]))
    ELSE min_seen

Next ==
    \/ \E b \in ForwardBatches, loss \in LossVals :
         \E results \in [1..Len(b) -> ForwardResults] :
            /\ Forward(b, loss, results)
            /\ min_before' = min_seen /\ min_seen' = min_seen
    \/ \E sp \in Splits :
         /\ LogRecords(sp)
         /\ min_before' = min_seen /\ min_seen' = Observed(sp)
    \/ \E mode \in BOOLEAN :
         NewRecords(mode) /\ min_before' = min_seen /\ min_seen' = min_seen

Spec == Init /\ [][Next]_vars

-----------------------------------------------------------------------------
(* Definitions the properties are stated with.                             *)

RECURSIVE SumSeq(_)
SumSeq(ns) == IF Len(ns) = 0 THEN 0 ELSE Head(ns) + SumSeq(Tail(ns))

RECURSIVE Lev(_, _)
\* the edit distance of two lists, by its defining recurrence
Lev(s, t) ==
    IF Len(s) = 0 THEN Len(t)
    ELSE IF Len(t) = 0 THEN Len(s)
    ELSE Min2(Lev(Tail(s), Tail(t)) + (IF Head(s) = Head(t) THEN 0 ELSE 1),
              Min2(Lev(Tail(s), t) + 1, Lev(s, Tail(t)) + 1))

\* the target units of utterance i: its label entries that are neither
\* padding nor end of sentence, as symbols
TargetUnits(i) ==
    LET ids == SelectSeq(labels[i], LAMBDA id : id \notin {Pad, Eos})
    IN [k \in 1..Len(ids) |-> Symbols[ids[k] + 1]]

\* the predicted units of utterance i
PredictedUnits(i) == Split(pred_tokens_batch[i])

RECURSIVE WordsFrom(_, _, _)
\* the words of a list of units: "|" ends a word, the other units spell it
WordsFrom(units, cur, out) ==
    IF Len(units) = 0 THEN (IF cur = "" THEN out ELSE Append(out, cur))
    ELSE IF Head(units) = "|"
         THEN WordsFrom(Tail(units), "", IF cur = "" THEN out ELSE Append(out, cur))
         ELSE WordsFrom(Tail(units), cur \o Head(units), out)

TargetWords(i) == WordsFrom(TargetUnits(i), "", <<>>)

Utterances == 1..Len(labels)

UnitErrors == SumSeq([i \in Utterances |-> Lev(PredictedUnits(i), TargetUnits(i))])
UnitCount == SumSeq([i \in Utterances |-> Len(TargetUnits(i))])
WordErrors == SumSeq([i \in Utterances |-> Lev(pred_words_batch[i], TargetWords(i))])
WordCount == SumSeq([i \in Utterances |-> Len(TargetWords(i))])

\* the highest-scoring unit of every one of the first in_len frames
GreedyPath(i) ==
    [t \in 1..Min2(input_lens[i], Len(log_probs[i])) |->
        CHOOSE c \in Classes : \A d \in Classes : log_probs[i][t][d] <= log_probs[i][t][c]]

RECURSIVE RunHeads(_, _)
\* the frames from t on that start a run of a unit other than the blank
RunHeads(path, t) ==
    IF t > Len(path) THEN <<>>
    ELSE (IF path[t] # blank /\ (t = 1 \/ path[t] # path[t - 1])
          THEN <<path[t]>> ELSE <<>>) \o RunHeads(path, t + 1)

DecodeDone == pc = "_decode"
MetricsDone == pc = "_compute_metrics"
LogDone == pc = "log_records"

\* the wer average of the records log_records was given
WerAverage == Mean(records["wer"])

-----------------------------------------------------------------------------
(* C1: a log_records call for a split whose name contains 'dev-clean'      *)
(* returns '<split>-best.ckpt' if and only if records has a 'wer' key      *)
(* whose mean is strictly below the best score held before the call; then  *)
(* the best score becomes that mean; otherwise nothing is returned and the *)
(* best score is unchanged. At most one name is returned.                  *)
C1_BestCheckpoint ==
    (LogDone /\ Contains("dev-clean", split)) =>
        LET better == "wer" \in DOMAIN records /\ RLess(WerAverage, best_before)
        IN /\ ((split \o "-best.ckpt") \in Range(save_names)) <=> better
           /\ better => best_score = WerAverage
           /\ ~better => (save_names = <<>> /\ best_score = best_before)
           /\ Len(save_names) <= 1

\* a second improvement on dev-clean: the best score was already below 100
C1_Witness ==
    /\ LogDone /\ split = "dev-clean"
    /\ RLess(best_before, InitialBest)
    /\ RLess(best_score, best_before)
    /\ save_names = <<"dev-clean-best.ckpt">>

(* C2: log_records called for the split 'dev' with a wer average strictly  *)
(* below the best score returns a best checkpoint name and lowers the best *)
(* score to that average.                                                  *)
C2_DevSplitSaves ==
    (/\ LogDone /\ split = "dev"
     /\ "wer" \in DOMAIN records
     /\ RLess(WerAverage, best_before)) =>
        (save_names # <<>> /\ best_score = WerAverage)

(* C3: when the batch has target units, the UER is 100 times the summed    *)
(* unit-level edit distance between predicted and target units, divided by *)
(* the number of target units.                                             *)
C3_UnitErrorRate ==
    (MetricsDone /\ UnitCount > 0) => uer[1] * UnitCount = 100 * UnitErrors * uer[2]

(* C4: when the batch has target words, the WER is 100 times the summed    *)
(* edit distance between the predicted and target word lists, divided by   *)
(* the number of target words; the target words are the target units cut   *)
(* at every "|".                                                           *)
C4_WordErrorRate ==
    (MetricsDone /\ WordCount > 0) => wer[1] * WordCount = 100 * WordErrors * wer[2]

\* two utterances, the first label padded, a two-word target, some but not
\* all words wrong
C4_Witness ==
    /\ MetricsDone /\ Len(labels) = 2
    /\ Pad \in Range(labels[1])
    /\ \E i \in Utterances : Len(TargetWords(i)) = 2
    /\ WordErrors > 0 /\ WordErrors < WordCount
    /\ wer = Rat(100 * WordErrors, WordCount)

(* C5: the best score is the least of 100 and every dev-clean wer average  *)
(* handed to log_records so far; it never increases; a name is returned    *)
(* exactly by the calls at which that least value strictly decreases.      *)
C5_RunningMinimum ==
    /\ best_score = min_seen
    /\ ~RLess(best_before, best_score)
    /\ LogDone => /\ (save_names # <<>>) <=> RLess(min_seen, min_before)
                  /\ save_names # <<>> => save_names = <<split \o "-best.ckpt">>

\* a dev-clean call that does not improve on an earlier, better one
C5_Witness ==
    /\ LogDone /\ split = "dev-clean"
    /\ "wer" \in DOMAIN records
    /\ RLess(best_score, WerAverage)
    /\ RLess(best_score, InitialBest)
    /\ save_names = <<>>

(* C6: the greedy prediction uses only the first in_len frames: the        *)
(* highest-scoring unit per frame, runs of equal units merged, blanks      *)
(* deleted afterwards. It holds no blank, is no longer than in_len; equal  *)
(* units around a blank frame are both kept, equal units in adjacent       *)
(* frames give one.                                                        *)
C6_GreedyCollapse ==
    DecodeDone =>
        \A i \in 1..Len(log_probs) :
            LET path == GreedyPath(i)
                ids == pred_token_ids_batch[i]
            IN /\ ids = RunHeads(path, 1)
               /\ blank \notin Range(ids)
               /\ Len(ids) <= input_lens[i]
               /\ \A u \in Classes \ {blank} :
                    /\ path = <<u, blank, u>> => ids = <<u, u>>
                    /\ path = <<u, u>> => ids = <<u>>
               /\ pred_tokens_batch[i] = String(ids)

\* the frames a, blank, a give two units
C6_Witness ==
    /\ DecodeDone
    /\ \E i \in 1..Len(log_probs) :
        /\ GreedyPath(i) = <<UnitA, blank, UnitA>>
        /\ pred_token_ids_batch[i] = <<UnitA, UnitA>>
        /\ pred_tokens_batch[i] = "a a"

(* C7: the decoder is invoked only when one is configured and the module   *)
(* is not training; the predicted words are the 'words' of the decoder's   *)
(* first hypothesis when it exists and has that entry, else the words of   *)
(* the greedy units; the predicted units are the greedy ones whatever the  *)
(* decoder answers.                                                        *)
C7_DecoderWords ==
    DecodeDone =>
        /\ decoder_inputs # <<>> => (decoder # "None" /\ ~training)
        /\ \A i \in 1..Len(log_probs) :
            LET r == decoder_results[i]
                first == decoder_inputs # <<>> /\ Len(r) >= 1 /\ Len(r[1]) >= 1
            IN /\ IF first /\ "words" \in DOMAIN r[1][1]
                  THEN pred_words_batch[i] = r[1][1].words
                  ELSE pred_words_batch[i] = Split(token_to_word(pred_tokens_batch[i]))
               /\ pred_tokens_batch[i] = String(GreedyIds(log_probs[i], input_lens[i]))

\* the decoder's words replace the greedy ones
C7_Witness ==
    /\ DecodeDone /\ decoder # "None" /\ ~training
    /\ \E i \in 1..Len(log_probs) :
        /\ decoder_results[i] = << <<[score |-> 0, words |-> <<"aa">>]>> >>
        /\ pred_tokens_batch[i] = "a"
        /\ pred_words_batch[i] = <<"aa">>

====
